---- MODULE Spec2Model ----
(***************************************************************************)
(* Model of the GitHub/Jira reconciliation tool (package main).            *)
(*                                                                         *)
(* Strings the program inspects character by character (pull request      *)
(* titles, issue keys) are sequences of one-character strings; strings it  *)
(* only copies (repository full names, logins, status names) are atoms.    *)
(***************************************************************************)
EXTENDS Integers, Sequences, FiniteSets, Bags, TLC

VARIABLES
    pc,         \* position of the process: list, loop, get, links, create, done, aborted
    repoIdx,    \* index of `repo` in the range loop over repositories
    prs,        \* pull requests of the listing still to be visited (their numbers)
    pr,         \* main: the loop variable pr
    match,      \* main: local match
    issueKey,   \* linkPullRequestToIssue: parameter issueKey
    title,      \* linkPullRequestToIssue: local title
    status,     \* linkPullRequestToIssue: local status
    links,      \* linkPullRequestToIssue: local links (result of GetRemoteLinks)
    err,        \* the err of the last remote call
    diag,       \* klog lines written while processing the current pull request
    jiraLinks,  \* the issue tracker: the remote links of every issue, a bag
    textIn,     \* a title handed to the text functions
    textOut     \* what the text functions return for textIn

vars == <<pc, repoIdx, prs, pr, match, issueKey, title, status, links, err, diag,
          jiraLinks, textIn, textOut>>

\* ------------------------------------------------------------------ bounds

\* pull requests a listing of one repository returns at most
MaxPulls == 1
\* chunks a generated title is made of at most, for the text functions
MaxChunks == 4
\* chunks a generated title is made of at most, for one pull request
MaxPullChunks == 3

\* ----------------------------------------------------------- configuration

repositories ==
    << "openshift/api", "openshift/image-registry" >>

jiraProjects ==
    << <<"I", "R">> >>

team ==
    { "dmage", "ricardomaraschini" }

teamRepos ==
    { "openshift/cluster-image-registry-operator", "openshift/image-registry" }

\* ------------------------------------------------------------------ strings

Digits == { "0", "1", "2", "3", "4", "5", "6", "7", "8", "9" }

Nil == << >>

WIP == << "W", "I", "P" >>

\* s[i:] begins with p
HasAt(s, i, p) ==
    /\ i >= 1
    /\ i + Len(p) - 1 <= Len(s)
    /\ SubSeq(s, i, i + Len(p) - 1) = p

HasPrefix(s, p) == HasAt(s, 1, p)

Contains(s, p) == \E i \in 1..(Len(s) + 1) : HasAt(s, i, p)

\* the index after the longest run of digits that starts at i
RECURSIVE DigitsEnd(_, _)
DigitsEnd(s, i) ==
    IF i <= Len(s) /\ s[i] \in Digits THEN DigitsEnd(s, i + 1) ELSE i

\* [0-9]+ followed by ": " at i: the index after the digits, 0 when it does not match
NumberMarkEnd(s, i) ==
    LET d == DigitsEnd(s, i)
    IN  IF d > i /\ HasAt(s, d, <<":", " ">>) THEN d ELSE 0

\* ((?:P1|P2|...)-[0-9]+):  at i: the index after the key, 0 when it does not match
KeyEndAt(s, i) ==
    LET alts == { k \in 1..Len(jiraProjects) :
                    /\ HasAt(s, i, jiraProjects[k] \o <<"-">>)
                    /\ NumberMarkEnd(s, i + Len(jiraProjects[k]) + 1) > 0 }
    IN  IF alts = {} THEN 0
        ELSE LET k == CHOOSE a \in alts : \A b \in alts : a <= b
             IN  NumberMarkEnd(s, i + Len(jiraProjects[k]) + 1)

\* a pattern that begins with ^: the match is tried at the start only
KeyFindAnchored(s) ==
    LET e == KeyEndAt(s, 1)
    IN  IF e = 0 THEN Nil ELSE << SubSeq(s, 1, e + 1), SubSeq(s, 1, e - 1) >>

\* keyRegexp.FindStringSubmatch: Nil, or << the match, its group 1 >>
KeyFindStringSubmatch(s) ==
    LET starts == { i \in 1..Len(s) : KeyEndAt(s, i) > 0 }
    IN  IF starts = {} THEN Nil
        ELSE LET i == CHOOSE a \in starts : \A b \in starts : a <= b
                 e == KeyEndAt(s, i)
             IN  << SubSeq(s, i, e + 1), SubSeq(s, i, e - 1) >>

\* bugRegexp.MatchString
BugMatchString(s) ==
    \E i \in 1..Len(s) :
        /\ HasAt(s, i, <<"B", "u", "g", " ">>)
        /\ NumberMarkEnd(s, i + 4) > 0

\* the cut is made without looking whether the title starts with the key
TrimKeyAlways(t, key) ==
    SubSeq(t, Len(key) + 3, Len(t))

\* linkPullRequestToIssue: the title with issueKey + ": " cut off its start
TrimKey(t, key) ==
    IF HasPrefix(t, key \o <<":", " ">>)
    THEN SubSeq(t, Len(key) + 3, Len(t))
    ELSE t

\* ------------------------------------------------ the text functions alone

Chunks ==
    { <<"I", "R", "-">>, <<"1">>, <<"2">>, <<":", " ">>, <<":">>, <<" ">>,
      <<"x">>, <<"I">>, <<"R">>, <<"-">> }

RECURSIVE Flatten(_)
Flatten(cs) ==
    IF cs = << >> THEN << >> ELSE Head(cs) \o Flatten(Tail(cs))

GeneratedTitles ==
    { Flatten(cs) : cs \in UNION { [1..n -> Chunks] : n \in 0..MaxChunks } }

NoText == [match |-> Nil, residual |-> Nil, done |-> FALSE]

InitText ==
    /\ textIn \in GeneratedTitles
    /\ textOut = NoText
    /\ pc = "text"
    /\ repoIdx = 1
    /\ prs = << >>
    /\ pr = Nil
    /\ match = Nil
    /\ issueKey = Nil
    /\ title = Nil
    /\ status = ""
    /\ links = EmptyBag
    /\ err = "nil"
    /\ diag = << >>
    /\ jiraLinks = << >>

\* main and linkPullRequestToIssue on one title: the match, then the cut
ExtractKey ==
    /\ pc = "text"
    /\ ~textOut.done
    /\ LET m == KeyFindStringSubmatch(textIn)
       IN  textOut' = [match |-> m,
                       residual |-> IF m = Nil THEN Nil ELSE TrimKey(textIn, m[2]),
                       done |-> TRUE]
    /\ UNCHANGED <<pc, repoIdx, prs, pr, match, issueKey, title, status, links,
                   err, diag, jiraLinks, textIn>>

NextText == ExtractKey

SpecText == InitText /\ [][NextText]_vars

\* --------------------------------------------------------- the remote data

\* Issue.Get: the status names an issue may carry
Statuses == { "In Progress", "Code Review", "On QA", "Done", "To Do" }

\* PullRequests.List: what a pull request of a listing may look like
PullStates ==
    { [state |-> "open", merged |-> FALSE],
      [state |-> "closed", merged |-> FALSE],
      [state |-> "closed", merged |-> TRUE],
      [state |-> "locked", merged |-> FALSE] }

LabelSets == { {}, {"lgtm", "do-not-merge/hold"} }

Logins == { "dmage", "octocat" }

PullChunks ==
    { <<"I", "R", "-", "1", ":", " ">>, <<"W", "I", "P">>,
      <<"B", "u", "g", " ", "7", ":", " ">>, <<"x">> }

PullTitles ==
    { Flatten(cs) : cs \in UNION { [1..n -> PullChunks] : n \in 0..MaxPullChunks } }

\* every pull request the checks of one pull request are tried on
AnyPullRequests(fullName, n) ==
    { [repo |-> fullName, number |-> n, title |-> t, state |-> s.state,
       merged |-> s.merged, labels |-> l, user |-> u] :
        t \in PullTitles, s \in PullStates, l \in LabelSets, u \in Logins }

\* the titles of the pull requests of whole runs
SampleTitles ==
    { <<"I", "R", "-", "1", ":", " ", "x">>,
      <<"W", "I", "P", " ", "I", "R", "-", "1", ":", " ", "x">>,
      <<"I", "R", "-", "2", ":", " ", "x">>,
      <<"B", "u", "g", " ", "7", ":", " ", "x">> }

\* the pull requests of whole runs: open ones, of somebody outside the team
SamplePullRequests(fullName, n) ==
    { [repo |-> fullName, number |-> n, title |-> t, state |-> "open",
       merged |-> FALSE, labels |-> {}, user |-> "octocat"] :
        t \in SampleTitles }

\* the listings of one repository: distinct pull requests in any order
Listings ==
    { q \in UNION { [1..n -> 1..MaxPulls] : n \in 0..MaxPulls } :
        \A i, j \in 1..Len(q) : i # j => q[i] # q[j] }

IssueKeys ==
    { KeyFindStringSubmatch(t)[2] :
        t \in { x \in SampleTitles : KeyFindStringSubmatch(x) # Nil } }

\* a link somebody put on an issue by hand before the first run
ForeignLink ==
    [url |-> <<"https://example.com/design">>, title |-> <<"design">>,
     icon |-> [url16x16 |-> "", title |-> ""]]

\* the tracker before the first run. The links of an issue are a bag: the loop
\* of linkPullRequestToIssue asks only whether some link has the URL, so the
\* order GetRemoteLinks returns them in is left out; copies are kept.
Tracker ==
    [k \in IssueKeys |->
        IF k = <<"I", "R", "-", "1">> THEN SetToBag({ ForeignLink }) ELSE EmptyBag]

\* ------------------------------------------------------- the program's parts

pullRequestLink(p) ==
    << "https://github.com/", p.repo, "/pull/", ToString(p.number) >>

pullRequestLinkTitle(p) ==
    << p.repo, "#", ToString(p.number) >>

contains(labels, name) == name \in labels

Line(kind, want) == [kind |-> kind, want |-> want]

\* the bug marker is looked at before the key
ClassifyBugFirst(p, m) ==
    IF p.state = "open" /\ (p.user \in team \/ p.repo \in teamRepos)
    THEN IF ~Contains(p.title, WIP)
         THEN IF BugMatchString(p.title)
              THEN << Line("awaiting review (bugfix)", "") >>
              ELSE IF m = Nil
                   THEN << Line("not assigned", "") >>
                   ELSE << Line("awaiting review (feature)", "") >>
         ELSE << >>
    ELSE << >>

\* main: the lines about a pull request that awaits review
Classify(p, m) ==
    IF p.state = "open" /\ (p.user \in team \/ p.repo \in teamRepos)
    THEN IF ~Contains(p.title, WIP)
         THEN IF m = Nil
              THEN IF ~BugMatchString(p.title)
                   THEN << Line("not assigned", "") >>
                   ELSE << Line("awaiting review (bugfix)", "") >>
              ELSE << Line("awaiting review (feature)", "") >>
         ELSE << >>
    ELSE << >>

\* the reminder is written whatever the labels are
StatusCheckNoLabel(p, t, st) ==
    CASE p.state = "open" ->
            << Line("not on hold", "") >>
            \o (IF Contains(t, WIP)
                THEN IF st # "In Progress"
                     THEN << Line("mismatch", "In Progress") >> ELSE << >>
                ELSE IF st # "Code Review"
                     THEN << Line("mismatch", "Code Review") >> ELSE << >>)
      [] p.state = "closed" ->
            IF p.merged /\ st # "On QA" /\ st # "Done"
            THEN << Line("mismatch", "On QA or Done") >> ELSE << >>
      [] OTHER -> << Line("unexpected state", "") >>

\* WIP is looked for at the start of the title only
StatusCheckWipPrefix(p, t, st) ==
    CASE p.state = "open" ->
            (IF ~contains(p.labels, "do-not-merge/hold")
             THEN << Line("not on hold", "") >> ELSE << >>)
            \o (IF HasPrefix(t, WIP)
                THEN IF st # "In Progress"
                     THEN << Line("mismatch", "In Progress") >> ELSE << >>
                ELSE IF st # "Code Review"
                     THEN << Line("mismatch", "Code Review") >> ELSE << >>)
      [] p.state = "closed" ->
            IF p.merged /\ st # "On QA" /\ st # "Done"
            THEN << Line("mismatch", "On QA or Done") >> ELSE << >>
      [] OTHER -> << Line("unexpected state", "") >>

\* a closed pull request is checked whether it was merged or not
StatusCheckUnmerged(p, t, st) ==
    CASE p.state = "open" ->
            (IF ~contains(p.labels, "do-not-merge/hold")
             THEN << Line("not on hold", "") >> ELSE << >>)
            \o (IF Contains(t, WIP)
                THEN IF st # "In Progress"
                     THEN << Line("mismatch", "In Progress") >> ELSE << >>
                ELSE IF st # "Code Review"
                     THEN << Line("mismatch", "Code Review") >> ELSE << >>)
      [] p.state = "closed" ->
            IF st # "On QA" /\ st # "Done"
            THEN << Line("mismatch", "On QA or Done") >> ELSE << >>
      [] OTHER -> << Line("unexpected state", "") >>

\* linkPullRequestToIssue: the switch on the state of the pull request
StatusCheck(p, t, st) ==
    CASE p.state = "open" ->
            (IF ~contains(p.labels, "do-not-merge/hold")
             THEN << Line("not on hold", "") >> ELSE << >>)
            \o (IF Contains(t, WIP)
                THEN IF st # "In Progress"
                     THEN << Line("mismatch", "In Progress") >> ELSE << >>
                ELSE IF st # "Code Review"
                     THEN << Line("mismatch", "Code Review") >> ELSE << >>)
      [] p.state = "closed" ->
            IF p.merged /\ st # "On QA" /\ st # "Done"
            THEN << Line("mismatch", "On QA or Done") >> ELSE << >>
      [] OTHER -> << Line("unexpected state", "") >>

\* the loop compares the title of the link, not its URL
AlreadyLinkedByTitle(ls, remoteURL) ==
    \E link \in BagToSet(ls) : link.title = remoteURL

\* linkPullRequestToIssue: the loop over the links of the issue
AlreadyLinked(ls, remoteURL) ==
    \E link \in BagToSet(ls) : link.url = remoteURL

\* linkPullRequestToIssue: the link it posts
NewRemoteLink(p, t) ==
    [url |-> pullRequestLink(p),
     title |-> pullRequestLinkTitle(p) \o <<":", " ">> \o t,
     icon |-> [url16x16 |-> "https://github.com/favicon.ico", title |-> "GitHub"]]

\* ------------------------------------------------------------- the process

Init ==
    /\ pc = "list"
    /\ repoIdx = 1
    /\ prs = << >>
    /\ pr = Nil
    /\ match = Nil
    /\ issueKey = Nil
    /\ title = Nil
    /\ status = ""
    /\ links = EmptyBag
    /\ err = "nil"
    /\ diag = << >>
    /\ jiraLinks = Tracker
    /\ textIn = Nil
    /\ textOut = NoText

\* the error is logged and the call is made again
FatalRetry ==
    /\ err' = "error"
    /\ pc' = pc

\* klog.Fatal(err)
Fatal ==
    /\ err' = "error"
    /\ pc' = "aborted"

\* main: githubClient.PullRequests.List for repositories[repoIdx]
ListPullRequests ==
    /\ pc = "list"
    /\ \/ /\ Fatal
          /\ UNCHANGED prs
       \/ /\ err' = "nil"
          /\ prs' \in Listings
          /\ pc' = "loop"
    /\ diag' = << >>
    /\ UNCHANGED <<repoIdx, pr, match, issueKey, title, status, links, jiraLinks,
                   textIn, textOut>>

\* main: one pass of the loop over prs, up to the first call to the tracker
Visit(p) ==
    LET m == KeyFindStringSubmatch(p.title)
    IN  /\ pc = "loop"
        /\ pr' = p
        /\ match' = m
        /\ IF m = Nil
           THEN /\ diag' = Classify(p, m)
                /\ pc' = "loop"
                /\ UNCHANGED <<issueKey, title>>
           ELSE /\ diag' = Classify(p, m) \o << Line("checking", "") >>
                /\ issueKey' = m[2]
                /\ title' = TrimKey(p.title, m[2])
                /\ pc' = "get"
        /\ prs' = Tail(prs)
        /\ UNCHANGED <<repoIdx, status, links, err, jiraLinks, textIn, textOut>>

\* main: the next pull request of the listing
NextPullRequest ==
    /\ prs # << >>
    /\ \E p \in SamplePullRequests(repositories[repoIdx], Head(prs)) : Visit(p)

\* main: the listing is used up, on to the next repository
NextRepository ==
    /\ pc = "loop"
    /\ prs = << >>
    /\ repoIdx' = repoIdx + 1
    /\ pc' = IF repoIdx < Len(repositories) THEN "list" ELSE "done"
    /\ pr' = Nil
    /\ match' = Nil
    /\ diag' = << >>
    /\ UNCHANGED <<prs, issueKey, title, status, links, err, jiraLinks,
                   textIn, textOut>>

\* linkPullRequestToIssue: jiraClient.Issue.Get and the check of the status
GetIssue ==
    /\ pc = "get"
    /\ \/ /\ Fatal
          /\ UNCHANGED <<status, diag>>
       \/ /\ err' = "nil"
          /\ status' \in Statuses
          /\ diag' = diag \o StatusCheck(pr, title, status')
          /\ pc' = "links"
    /\ UNCHANGED <<repoIdx, prs, pr, match, issueKey, title, links, jiraLinks,
                   textIn, textOut>>

\* linkPullRequestToIssue: the return
Return ==
    /\ pc' = "loop"
    /\ issueKey' = Nil
    /\ title' = Nil
    /\ status' = ""
    /\ links' = EmptyBag

\* a link that is found gets the title the pull request has now
GetRemoteLinksRefresh ==
    /\ pc = "links"
    /\ \/ /\ Fatal
          /\ UNCHANGED <<issueKey, title, status, links, diag, jiraLinks>>
       \/ /\ err' = "nil"
          /\ IF AlreadyLinked(jiraLinks[issueKey], pullRequestLink(pr))
             THEN /\ diag' = diag \o << Line("already linked", "") >>
                  /\ jiraLinks' = [jiraLinks EXCEPT ![issueKey] =
                        SetToBag({ l \in BagToSet(@) : l.url # pullRequestLink(pr) }
                                 \cup { NewRemoteLink(pr, title) })]
                  /\ Return
             ELSE /\ diag' = diag \o << Line("linking", "") >>
                  /\ links' = jiraLinks[issueKey]
                  /\ pc' = "create"
                  /\ UNCHANGED <<issueKey, title, status, jiraLinks>>
    /\ UNCHANGED <<repoIdx, prs, pr, match, textIn, textOut>>

\* linkPullRequestToIssue: jiraClient.Issue.GetRemoteLinks and the search
GetRemoteLinks ==
    /\ pc = "links"
    /\ \/ /\ Fatal
          /\ UNCHANGED <<issueKey, title, status, links, diag>>
       \/ /\ err' = "nil"
          /\ IF AlreadyLinked(jiraLinks[issueKey], pullRequestLink(pr))
             THEN /\ diag' = diag \o << Line("already linked", "") >>
                  /\ Return
             ELSE /\ diag' = diag \o << Line("linking", "") >>
                  /\ links' = jiraLinks[issueKey]
                  /\ pc' = "create"
                  /\ UNCHANGED <<issueKey, title, status>>
    /\ UNCHANGED <<repoIdx, prs, pr, match, jiraLinks, textIn, textOut>>

\* the POST is sent twice
CreateRemoteLinkTwice ==
    /\ pc = "create"
    /\ \/ /\ Fatal
          /\ UNCHANGED <<issueKey, title, status, links, jiraLinks>>
       \/ /\ err' = "nil"
          /\ jiraLinks' = [jiraLinks EXCEPT
                             ![issueKey] = @ (+) SetToBag({ NewRemoteLink(pr, title) })
                                             (+) SetToBag({ NewRemoteLink(pr, title) })]
          /\ Return
    /\ UNCHANGED <<repoIdx, prs, pr, match, diag, textIn, textOut>>

\* linkPullRequestToIssue: the POST of the new link
CreateRemoteLink ==
    /\ pc = "create"
    /\ \/ /\ Fatal
          /\ UNCHANGED <<issueKey, title, status, links, jiraLinks>>
       \/ /\ err' = "nil"
          /\ jiraLinks' = [jiraLinks EXCEPT
                             ![issueKey] = @ (+) SetToBag({ NewRemoteLink(pr, title) })]
          /\ Return
    /\ UNCHANGED <<repoIdx, prs, pr, match, diag, textIn, textOut>>

\* the tool is started again; the tracker keeps what it holds
Rerun ==
    /\ pc \in { "done", "aborted" }
    /\ pc' = "list"
    /\ repoIdx' = 1
    /\ prs' = << >>
    /\ pr' = Nil
    /\ match' = Nil
    /\ issueKey' = Nil
    /\ title' = Nil
    /\ status' = ""
    /\ links' = EmptyBag
    /\ err' = "nil"
    /\ diag' = << >>
    /\ UNCHANGED <<jiraLinks, textIn, textOut>>

Next ==
    \/ ListPullRequests
    \/ NextPullRequest
    \/ NextRepository
    \/ GetIssue
    \/ GetRemoteLinks
    \/ CreateRemoteLink
    \/ Rerun

Spec == Init /\ [][Next]_vars

\* ------------------------------------------------- one pull request alone

\* the first repository's or the second's listing holds one pull request
InitPull ==
    /\ pc = "loop"
    /\ repoIdx \in 1..Len(repositories)
    /\ prs = << 1 >>
    /\ pr = Nil
    /\ match = Nil
    /\ issueKey = Nil
    /\ title = Nil
    /\ status = ""
    /\ links = EmptyBag
    /\ err = "nil"
    /\ diag = << >>
    /\ jiraLinks = Tracker
    /\ textIn = Nil
    /\ textOut = NoText

\* main: the next pull request of the listing, whatever it looks like
NextAnyPullRequest ==
    /\ prs # << >>
    /\ \E p \in AnyPullRequests(repositories[repoIdx], Head(prs)) : Visit(p)

NextPull ==
    \/ NextAnyPullRequest
    \/ GetIssue
    \/ GetRemoteLinks
    \/ CreateRemoteLink

SpecPull == InitPull /\ [][NextPull]_vars

\* ------------------------------------------------------------------ claims

\* the links of issue k whose URL is u, counted with their copies
LinksTo(k, u) ==
    LET hits == { l \in BagToSet(jiraLinks[k]) : l.url = u }
    IN  IF hits = {} THEN 0
        ELSE IF Cardinality(hits) > 1 THEN 2
        ELSE CopiesIn(CHOOSE l \in hits : TRUE, jiraLinks[k])

AllURLs ==
    UNION { { l.url : l \in BagToSet(jiraLinks[k]) } : k \in DOMAIN jiraLinks }

LastLine == IF diag = << >> THEN "" ELSE diag[Len(diag)].kind

\* C1: however often the reconciler runs for the same issue and pull request,
\* the issue holds at most one link to the URL of the pull request, and the
\* POST is pending only while the issue holds no link to that URL.
C1_Idempotent ==
    /\ \A k \in DOMAIN jiraLinks : \A u \in AllURLs : LinksTo(k, u) <= 1
    /\ pc = "create" => LinksTo(issueKey, pullRequestLink(pr)) = 0

\* C1 witness: an invocation found the link of an earlier one and returned.
C1_Witness ==
    /\ pc = "loop"
    /\ LastLine = "already linked"
    /\ LinksTo(match[2], pullRequestLink(pr)) = 1

\* k is <prefix>-<digits> for a configured prefix
IsKeyText(k) ==
    \E n \in 1..Len(jiraProjects) :
        LET p == jiraProjects[n]
        IN  /\ Len(k) >= Len(p) + 2
            /\ SubSeq(k, 1, Len(p)) = p
            /\ k[Len(p) + 1] = "-"
            /\ \A j \in (Len(p) + 2)..Len(k) : k[j] \in Digits

\* t holds the marker "<key>: " at i, the key being n long
MarkerAt(t, i, n) ==
    /\ i + n + 1 <= Len(t)
    /\ IsKeyText(SubSeq(t, i, i + n - 1))
    /\ t[i + n] = ":"
    /\ t[i + n + 1] = " "

MarkerStarts(t) ==
    { i \in 1..Len(t) : \E n \in 1..Len(t) : MarkerAt(t, i, n) }

Count(kind) == Cardinality({ i \in DOMAIN diag : diag[i].kind = kind })

Wanted == { diag[i].want : i \in { j \in DOMAIN diag : diag[j].kind = "mismatch" } }

OnHold(p) == "do-not-merge/hold" \in p.labels

\* C3 as stated: every open pull request that was processed and is not on hold
\* got the reminder, whether a key was taken from its title or not.
C3_EveryOpen ==
    (pc = "loop" /\ pr # Nil /\ pr.state = "open" /\ ~OnHold(pr))
        => Count("not on hold") >= 1

\* C3, amended: the reminder is written, once, for an open pull request that is
\* not on hold, from whose title a key was taken and whose issue was fetched;
\* for a pull request without a key it is not written.
C3_OpenWithKey ==
    (pr # Nil /\ pc \in { "links", "create", "loop" })
        => Count("not on hold") =
              IF match # Nil /\ pr.state = "open" /\ ~OnHold(pr) THEN 1 ELSE 0

\* C3 witness: the reminder was written for an open pull request with a key.
C3_Witness ==
    /\ pc = "loop"
    /\ pr # Nil
    /\ match # Nil
    /\ pr.state = "open"
    /\ ~OnHold(pr)
    /\ Count("not on hold") = 1

\* C4: for an open pull request with a key, once its issue is fetched: no
\* mismatch line when the status is the wanted one (In Progress with WIP in the
\* title, Code Review without), exactly one mismatch line for any other status.
C4_OpenStatus ==
    (pc \in { "links", "create" } /\ pr.state = "open")
        => LET want == IF Contains(pr.title, WIP) THEN "In Progress"
                       ELSE "Code Review"
           IN  IF status = want
               THEN Count("mismatch") = 0
               ELSE Count("mismatch") = 1 /\ Wanted = { want }

\* C4 witness: a title with WIP behind the key, a status other than In Progress,
\* one mismatch line.
C4_Witness ==
    /\ pc = "links"
    /\ pr.state = "open"
    /\ title # pr.title
    /\ Contains(pr.title, WIP)
    /\ ~HasPrefix(title, WIP)
    /\ status = "Code Review"
    /\ Count("mismatch") = 1

\* C5: for a closed pull request with a key, once its issue is fetched: a
\* mismatch line exactly when it is merged and the status is neither On QA nor
\* Done; for a state that is neither open nor closed, the line about the
\* unexpected state and no mismatch line.
C5_ClosedStatus ==
    (pc \in { "links", "create" } /\ pr.state # "open")
        => IF pr.state = "closed"
           THEN /\ Count("unexpected state") = 0
                /\ Count("mismatch") =
                      IF pr.merged /\ status \notin { "On QA", "Done" } THEN 1 ELSE 0
           ELSE /\ Count("unexpected state") = 1
                /\ Count("mismatch") = 0

\* C5 witness: a merged pull request whose issue is In Progress, one mismatch line.
C5_Witness ==
    /\ pc = "links"
    /\ pr.state = "closed"
    /\ pr.merged
    /\ status = "In Progress"
    /\ Count("mismatch") = 1

IsClassifierLine(l) ==
    l.kind \in { "not assigned", "awaiting review (bugfix)",
                 "awaiting review (feature)" }

Tracked(p) ==
    /\ p.state = "open"
    /\ p.user \in team \/ p.repo \in teamRepos
    /\ ~Contains(p.title, WIP)

\* C6: the classifier writes exactly one line for an open pull request of the
\* team or of a team repository without WIP in its title: feature when a key was
\* taken, else bugfix when the bug marker matches, else not assigned; it writes
\* nothing for any other pull request.
C6_Classifier ==
    pr # Nil =>
        SelectSeq(diag, IsClassifierLine) =
            IF ~Tracked(pr) THEN << >>
            ELSE IF match # Nil THEN << Line("awaiting review (feature)", "") >>
            ELSE IF BugMatchString(pr.title)
                 THEN << Line("awaiting review (bugfix)", "") >>
            ELSE << Line("not assigned", "") >>

\* C6 witness: a title with the bug marker and a key is classified as a feature.
C6_Witness ==
    /\ pr # Nil
    /\ Tracked(pr)
    /\ match # Nil
    /\ BugMatchString(pr.title)
    /\ Count("awaiting review (feature)") = 1

\* C7: a remote call that fails ends the run at once, with the tracker as it
\* was; nothing but an error ends it; and after the end no step is taken but the
\* start of another run.
C7_AbortOnError ==
    [][ /\ err' # "nil" => (pc' = "aborted" /\ jiraLinks' = jiraLinks)
        /\ pc' = "aborted" => err' # "nil"
        /\ pc = "aborted" =>
              (pc' = "list" /\ repoIdx' = 1 /\ err' = "nil" /\ jiraLinks' = jiraLinks)
      ]_vars

\* C7 witness: a run went on after a mismatch line and ended when the fetch of
\* the links failed, with a repository still to visit.
C7_Witness ==
    /\ pc = "aborted"
    /\ err = "error"
    /\ repoIdx < Len(repositories)
    /\ Count("mismatch") = 1
    /\ status # ""

\* C8: the tracker changes only by the POST of the reconciler, which adds one
\* link to the issue of the key taken from the title, whose fetched links hold
\* none to the URL of the pull request, and then returns; without a key the
\* reconciler is not entered.
C8_OnlyCreate ==
    [][ /\ jiraLinks' # jiraLinks =>
              /\ pc = "create"
              /\ pc' = "loop"
              /\ match # Nil
              /\ issueKey = match[2]
              /\ links = jiraLinks[issueKey]
              /\ \A l \in BagToSet(links) : l.url # pullRequestLink(pr)
              /\ BagCardinality(jiraLinks'[issueKey])
                    = BagCardinality(jiraLinks[issueKey]) + 1
              /\ \A k \in DOMAIN jiraLinks \ { issueKey } : jiraLinks'[k] = jiraLinks[k]
        /\ match' = Nil => pc' \notin { "get", "links", "create" }
      ]_vars

\* C8 witness: a pull request with the bug marker alone was passed over, in a
\* run of a tracker that got a link from the reconciler.
C8_Witness ==
    /\ pc = "loop"
    /\ pr # Nil
    /\ match = Nil
    /\ BugMatchString(pr.title)
    /\ jiraLinks # Tracker

ExampleTitle ==
    << "I", "R", "-", "1", "2", "3", ":", " ", "F", "i", "x", " ", "r", "e", "g",
       "i", "s", "t", "r", "y", " ", "p", "r", "u", "n", "i", "n", "g" >>

ExampleLink ==
    NewRemoteLink([repo |-> "openshift/image-registry", number |-> 42,
                   title |-> ExampleTitle],
                  TrimKey(ExampleTitle, KeyFindStringSubmatch(ExampleTitle)[2]))

\* the links jiraLinks' holds more often than jiraLinks
Added(k) ==
    { l \in BagToSet(jiraLinks'[k]) : CopiesIn(l, jiraLinks'[k]) > CopiesIn(l, jiraLinks[k]) }

\* C9: a link the reconciler creates has the URL
\* https://github.com/<owner>/<repo>/pull/<number> and the title
\* <owner>/<repo>#<number>: <residual>, the residual being the title without its
\* leading "<key>: " when it starts with it and the title otherwise.
C9_LinkContent ==
    [][ /\ ExampleLink.url =
              << "https://github.com/", "openshift/image-registry", "/pull/", "42" >>
        /\ ExampleLink.title =
              << "openshift/image-registry", "#", "42", ":", " ", "F", "i", "x", " ",
                 "r", "e", "g", "i", "s", "t", "r", "y", " ", "p", "r", "u", "n", "i",
                 "n", "g" >>
        /\ jiraLinks' # jiraLinks =>
              /\ Added(issueKey) # {}
              /\ \A l \in Added(issueKey) :
                    /\ l.url = << "https://github.com/", pr.repo, "/pull/",
                                  ToString(pr.number) >>
                    /\ l.title = << pr.repo, "#", ToString(pr.number), ":", " " >>
                                 \o (IF 1 \in MarkerStarts(pr.title)
                                     THEN SubSeq(pr.title, Len(issueKey) + 3,
                                                 Len(pr.title))
                                     ELSE pr.title)
                    /\ l.icon.url16x16 = "https://github.com/favicon.ico"
      ]_vars

\* C9 witness: a link was created for a title that starts with its key, and
\* holds the rest of it.
C9_Witness ==
    /\ pc = "loop"
    /\ LastLine = "linking"
    /\ HasPrefix(pr.title, match[2] \o <<":", " ">>)
    /\ \E l \in BagToSet(jiraLinks[match[2]]) :
          /\ l.url = pullRequestLink(pr)
          /\ l.title = pullRequestLinkTitle(pr) \o <<":", " ">>
                       \o SubSeq(pr.title, Len(match[2]) + 3, Len(pr.title))

\* C10: a link an issue holds stays on it as it is; an issue that holds a link
\* to a URL gets no other link to that URL.
C10_LinksKept ==
    [][ \A k \in DOMAIN jiraLinks :
          /\ jiraLinks[k] \sqsubseteq jiraLinks'[k]
          /\ \A l \in BagToSet(jiraLinks'[k]) :
                (\E o \in BagToSet(jiraLinks[k]) : o.url = l.url)
                    => l \in BagToSet(jiraLinks[k])
      ]_vars

\* C10 witness: the reconciler found the link of a pull request whose title has
\* changed since, and left the link with the old title.
C10_Witness ==
    /\ pc = "loop"
    /\ LastLine = "already linked"
    /\ \E l \in BagToSet(jiraLinks[match[2]]) :
          /\ l.url = pullRequestLink(pr)
          /\ l.title # NewRemoteLink(pr, TrimKey(pr.title, match[2])).title

====
